---- MODULE Spec2Model ----
(***************************************************************************)
(* State-machine model of the customer-support agent: the Memory Store     *)
(* adapter (Mem0Client), the Knowledge Loader (KnowledgeBaseLoader,        *)
(* initialize_knowledge_base) and the Support Agent (CustomerSupportAgent).*)
(* Every call that crosses to the memory service or to the completion      *)
(* endpoint is one step; each may succeed or raise.                        *)
(***************************************************************************)
EXTENDS Naturals, Sequences, FiniteSets, TLC

VARIABLES
    store,          \* memory service: owner key -> sequence of stored items
    knowledge_loader, \* whether the agent was constructed with a loader
    pc,             \* per process: position inside the running operation
    op,             \* per process: the public operation running / last run
    customer_id,    \* per process: customer_id argument of the operation
    query,          \* per process: query argument of handle_customer_query
    save_interaction, \* per process: save_interaction argument
    idx,            \* per process: position of the load loop in searchable_items
    loaded_count,   \* per process: load_knowledge_base's loaded_count
    errors,         \* per process: load_knowledge_base's errors list
    context_items,  \* per process: handle_customer_query's context_items
    response_text,  \* per process: handle_customer_query's response_text
    result,         \* per process: value returned by the last finished operation
    calls,          \* per process: external calls issued by the operation (history)
    before,         \* per process: the store as it was when the operation began
    emptied,        \* owners whose last acknowledged write was a delete-all (history)
    budget          \* operations that may still be started

vars == <<store, knowledge_loader, pc, op, customer_id, query, save_interaction,
          idx, loaded_count, errors, context_items, response_text, result,
          calls, before, emptied, budget>>

(***************************************************************************)
(* Bounds of the model.                                                    *)
(***************************************************************************)
\* number of flattened records of the static knowledge base (28 in the data)
NumRecords == 2
\* number of public operations started in one run of one thread of control
MaxOps == 3
\* number of public operations started in one run of two concurrent processes
MaxConcOps == 2
\* number of operations started in one run over all public operations
MaxPublicOps == 2
\* number of queries started in one run on partitions larger than the limit
MaxQueries == 1

Procs == {1, 2}

(***************************************************************************)
(* Program constants.                                                      *)
(***************************************************************************)
knowledge_base_user_id == "techcorp_knowledge_base"

\* default of _get_customer_context's limit parameter
ContextLimit == 3

\* ids the presentation layer passes in: a free text field, so the reserved
\* key is among them
CustomerIds == {"customer_001", knowledge_base_user_id}

\* a customer whose partition is there while others query
OtherCustomer == "customer_002"

Owners == CustomerIds \cup {knowledge_base_user_id, OtherCustomer}

Queries == {"How much storage do I get?"}

BackendError == "BackendError"

NoContentFallback ==
    "I apologize, but I couldn't generate a proper response. Please try again."

TechnicalDifficulties ==
    "I apologize, but I'm experiencing technical difficulties. Please try again or contact our technical support team."

\* what the completion endpoint may answer: some text, or empty content
LlmContents == {"You get unlimited storage.", ""}

(***************************************************************************)
(* Static knowledge base.                                                  *)
(***************************************************************************)
RecordType(i) ==
    IF i = 1 THEN "company_info" ELSE IF i = 2 THEN "product_info" ELSE "faq"

get_searchable_content ==
    [i \in 1..NumRecords |->
        [type |-> RecordType(i), content |-> <<"content", ToString(i)>>]]

(***************************************************************************)
(* Memory service (mem0 Memory), by its contract: add stores one record,   *)
(* search returns up to limit items of the owner, get_all dumps the        *)
(* owner's items, delete_all empties the owner's partition.                *)
(***************************************************************************)
MemoryItem(data, metadata) == [memory |-> data, metadata |-> metadata]

memory_add(s, data, user_id, metadata) ==
    [s EXCEPT ![user_id] = Append(@, MemoryItem(data, metadata))]

memory_delete_all(s, user_id) == [s EXCEPT ![user_id] = <<>>]

memory_get_all(s, user_id) == s[user_id]

RECURSIVE Pick(_, _)
\* the items of sequence q at the positions in set S, in q's order
Pick(q, S) ==
    IF q = <<>> THEN <<>>
    ELSE LET rest == Pick(Tail(q), {j - 1 : j \in S \ {1}})
         IN IF 1 \in S THEN <<Head(q)>> \o rest ELSE rest

\* the possible answers of a search: relevance is the service's own measure
memory_search(s, user_id, limit) ==
    {Pick(s[user_id], S) :
        S \in {T \in SUBSET (1..Len(s[user_id])) : Cardinality(T) <= limit}}

(***************************************************************************)
(* History of external calls (for the properties, not read by the program).*)
(***************************************************************************)
NoData == <<>>

\* what a delete_all of user_id removes from store s
Removed(s, user_id, ok) == IF ok THEN s[user_id] ELSE <<>>

\* fn: the call; data: what an add was given, what a search gave back, what
\* a delete_all removed
Call(fn, user_id, data, ok) ==
    [fn |-> fn, user_id |-> user_id, data |-> data, ok |-> ok]

NoResult == [op |-> "none"]


(***************************************************************************)
(* Common frame of the operations.                                         *)
(***************************************************************************)
loadLocals == <<idx, loaded_count, errors>>

queryLocals == <<customer_id, query, save_interaction, context_items, response_text>>

\* process p starts public operation name
Begin(p, name) ==
    /\ pc[p] = "idle"
    /\ budget > 0
    /\ budget' = budget - 1
    /\ op' = [op EXCEPT ![p] = name]
    /\ before' = [before EXCEPT ![p] = store]
    /\ UNCHANGED knowledge_loader

\* process p goes on inside the operation it is running
Continue(p, at) ==
    /\ pc[p] = at
    /\ UNCHANGED <<op, before, budget, knowledge_loader>>

Returned(name, value) == [op |-> name, ret |-> value]

(***************************************************************************)
(* KnowledgeBaseLoader.load_knowledge_base                                 *)
(***************************************************************************)
searchable_items == get_searchable_content

load_metadata(item) ==
    [type |-> item.type, source |-> "knowledge_base", loaded_at |-> "initial_load"]

\* variant: the record is skipped when the partition already holds it
load_add_dedup(s, item, ok) ==
    IF ok /\ \A k \in 1..Len(s[knowledge_base_user_id]) :
                s[knowledge_base_user_id][k].memory # item.content
    THEN memory_add(s, item.content, knowledge_base_user_id, load_metadata(item))
    ELSE s

\* variant: the add replaces the copies of the record the partition holds
load_add_replace(s, item, ok) ==
    IF ok
    THEN memory_add([s EXCEPT ![knowledge_base_user_id] =
                        SelectSeq(@, LAMBDA m : m.memory # item.content)],
                    item.content, knowledge_base_user_id, load_metadata(item))
    ELSE s

\* the store after the add of one pass of the loop body
load_add(s, item, ok) ==
    IF ok THEN memory_add(s, item.content, knowledge_base_user_id, load_metadata(item))
    ELSE s

\* variant: every attempted add is counted as loaded
load_count_after_attempts(count, ok) == count + 1

\* loaded_count after one pass of the loop body
load_count_after(count, ok) == IF ok THEN count + 1 ELSE count

load_error_msg(item, e) == <<"Failed to load item", item.type, e>>

\* variant: the failure is swallowed without being recorded
load_errors_swallowed(errs, item, ok) == errs

\* errors after one pass of the loop body
load_errors_after(errs, item, ok) ==
    IF ok THEN errs ELSE Append(errs, load_error_msg(item, BackendError))

\* variant: the first failing add ends the batch
load_next_idx_abort(i, ok) == IF ok THEN i + 1 ELSE Len(get_searchable_content) + 1

\* variant: the record is added again after a successful add
load_next_idx_again(i, ok) == IF ok THEN i ELSE i + 1

\* position of the loop after one pass of the loop body: a failing add does
\* not leave the loop
load_next_idx(i, ok) == i + 1

load_result(count, errs) ==
    [success |-> TRUE, loaded_count |-> count,
     total_items |-> Len(searchable_items), errors |-> errs]

\* the locals of load_knowledge_base before the loop (and, being dead, after it)
EnterLoad(p) ==
    /\ idx' = [idx EXCEPT ![p] = 1]
    /\ loaded_count' = [loaded_count EXCEPT ![p] = 0]
    /\ errors' = [errors EXCEPT ![p] = <<>>]

CallLoad(p) ==
    /\ Begin(p, "load_knowledge_base")
    /\ pc' = [pc EXCEPT ![p] = "load"]
    /\ EnterLoad(p)
    /\ result' = [result EXCEPT ![p] = NoResult]
    /\ calls' = [calls EXCEPT ![p] = <<>>]
    /\ UNCHANGED <<store, emptied, queryLocals>>

\* one pass of the loop body: one add, which stores the record or raises
LoadStep(p) ==
    /\ Continue(p, "load")
    /\ idx[p] <= Len(searchable_items)
    /\ \E ok \in BOOLEAN :
        LET item == searchable_items[idx[p]]
        IN /\ store' = load_add(store, item, ok)
           /\ emptied' = IF ok THEN emptied \ {knowledge_base_user_id} ELSE emptied
           /\ calls' = [calls EXCEPT ![p] =
                          Append(@, Call("add", knowledge_base_user_id, item.content, ok))]
           /\ loaded_count' = [loaded_count EXCEPT ![p] = load_count_after(@, ok)]
           /\ errors' = [errors EXCEPT ![p] = load_errors_after(@, item, ok)]
           /\ idx' = [idx EXCEPT ![p] = load_next_idx(@, ok)]
    /\ UNCHANGED <<pc, result, queryLocals>>

\* what the operation that ran the load returns
load_caller_result(name, existing, res) ==
    IF name = "initialize_knowledge_base"
    THEN Returned(name, [existing_items |-> existing, loaded |-> TRUE, load_result |-> res])
    ELSE Returned(name, res)

LoadReturn(p) ==
    /\ Continue(p, "load")
    /\ idx[p] > Len(searchable_items)
    /\ pc' = [pc EXCEPT ![p] = "idle"]
    /\ result' = [result EXCEPT ![p] =
                    load_caller_result(op[p], 0, load_result(loaded_count[p], errors[p]))]
    /\ EnterLoad(p)
    /\ UNCHANGED <<store, emptied, calls, queryLocals>>

(***************************************************************************)
(* KnowledgeBaseLoader.clear_knowledge_base, reload_knowledge_base         *)
(***************************************************************************)
\* variant: the delete_all is issued for another owner key
clear_store_other_owner(s, ok) ==
    IF ok THEN memory_delete_all(s, "customer_001") ELSE s

\* the store after clear_knowledge_base's delete_all
clear_store(s, ok) ==
    IF ok THEN memory_delete_all(s, knowledge_base_user_id) ELSE s

\* variant: a failed delete_all is reported as success
clear_result_swallowed(ok) == [success |-> TRUE, result |-> "deleted"]

clear_result(ok) ==
    IF ok THEN [success |-> TRUE, result |-> "deleted"]
    ELSE [success |-> FALSE, error |-> BackendError]

ClearKnowledgeBase(p) ==
    /\ Begin(p, "clear_knowledge_base")
    /\ \E ok \in BOOLEAN :
        /\ store' = clear_store(store, ok)
        /\ emptied' = IF ok THEN emptied \cup {knowledge_base_user_id} ELSE emptied
        /\ calls' = [calls EXCEPT ![p] =
                       <<Call("delete_all", knowledge_base_user_id,
                            Removed(store, knowledge_base_user_id, ok), ok)>>]
        /\ result' = [result EXCEPT ![p] = Returned("clear_knowledge_base", clear_result(ok))]
    /\ UNCHANGED <<pc, loadLocals, queryLocals>>

CallReload(p) ==
    /\ Begin(p, "reload_knowledge_base")
    /\ pc' = [pc EXCEPT ![p] = "reload_clear"]
    /\ result' = [result EXCEPT ![p] = NoResult]
    /\ calls' = [calls EXCEPT ![p] = <<>>]
    /\ UNCHANGED <<store, emptied, loadLocals, queryLocals>>

\* variant: the outcome of the clear step is not looked at
reload_proceeds_always(cleared) == TRUE

\* reload goes on to load only when the clear step succeeded
reload_proceeds(cleared) == cleared.success

\* the clear phase of reload
ReloadClear(p) ==
    /\ Continue(p, "reload_clear")
    /\ \E ok \in BOOLEAN :
        /\ store' = clear_store(store, ok)
        /\ emptied' = IF ok THEN emptied \cup {knowledge_base_user_id} ELSE emptied
        /\ calls' = [calls EXCEPT ![p] =
                       Append(@, Call("delete_all", knowledge_base_user_id,
                            Removed(store, knowledge_base_user_id, ok), ok))]
        /\ IF reload_proceeds(clear_result(ok))
           THEN /\ pc' = [pc EXCEPT ![p] = "load"]
                /\ EnterLoad(p)
                /\ UNCHANGED result
           ELSE /\ pc' = [pc EXCEPT ![p] = "idle"]
                /\ result' = [result EXCEPT ![p] =
                                Returned("reload_knowledge_base", clear_result(ok))]
                /\ UNCHANGED loadLocals
    /\ UNCHANGED queryLocals

(***************************************************************************)
(* KnowledgeBaseLoader.get_all_knowledge_base_items, search_knowledge_base,*)
(* initialize_knowledge_base                                               *)
(***************************************************************************)
\* variant: a failing get_all is answered from what the partition holds
get_all_knowledge_base_items_stale(s, ok) == memory_get_all(s, knowledge_base_user_id)

\* a failing get_all is answered with the empty list
get_all_knowledge_base_items(s, ok) ==
    IF ok THEN memory_get_all(s, knowledge_base_user_id) ELSE <<>>

GetAllKnowledgeBaseItems(p) ==
    /\ Begin(p, "get_all_knowledge_base_items")
    /\ \E ok \in BOOLEAN :
        /\ calls' = [calls EXCEPT ![p] =
                       <<Call("get_all", knowledge_base_user_id, NoData, ok)>>]
        /\ result' = [result EXCEPT ![p] =
                        Returned("get_all_knowledge_base_items",
                                 get_all_knowledge_base_items(store, ok))]
    /\ UNCHANGED <<store, emptied, pc, loadLocals, queryLocals>>

\* variant: the limit is not handed on to the memory service
search_knowledge_base_unbounded(s, limit, ok) ==
    IF ok THEN memory_search(s, knowledge_base_user_id, Len(s[knowledge_base_user_id]))
    ELSE {<<>>}

\* the possible answers of search_knowledge_base: a failing search gives []
search_knowledge_base(s, limit, ok) ==
    IF ok THEN memory_search(s, knowledge_base_user_id, limit) ELSE {<<>>}

SearchKnowledgeBase(p) ==
    /\ Begin(p, "search_knowledge_base")
    /\ \E ok \in BOOLEAN :
        \E results \in search_knowledge_base(store, ContextLimit, ok) :
            /\ calls' = [calls EXCEPT ![p] =
                           <<Call("search", knowledge_base_user_id, results, ok)>>]
            /\ result' = [result EXCEPT ![p] =
                            Returned("search_knowledge_base", results)]
    /\ UNCHANGED <<store, emptied, pc, loadLocals, queryLocals>>

CallInitialize(p) ==
    /\ Begin(p, "initialize_knowledge_base")
    /\ pc' = [pc EXCEPT ![p] = "init_list"]
    /\ result' = [result EXCEPT ![p] = NoResult]
    /\ calls' = [calls EXCEPT ![p] = <<>>]
    /\ UNCHANGED <<store, emptied, loadLocals, queryLocals>>

\* bootstrap loads only when the listing came back empty
initialize_loads(existing_items) == Len(existing_items) = 0

\* the listing step of bootstrap
InitList(p) ==
    /\ Continue(p, "init_list")
    /\ \E ok \in BOOLEAN :
        LET existing_items == get_all_knowledge_base_items(store, ok)
        IN /\ calls' = [calls EXCEPT ![p] =
                          Append(@, Call("get_all", knowledge_base_user_id, NoData, ok))]
           /\ IF initialize_loads(existing_items)
              THEN /\ pc' = [pc EXCEPT ![p] = "load"]
                   /\ EnterLoad(p)
                   /\ UNCHANGED result
              ELSE /\ pc' = [pc EXCEPT ![p] = "idle"]
                   /\ result' = [result EXCEPT ![p] =
                                   Returned("initialize_knowledge_base",
                                            [existing_items |-> Len(existing_items),
                                             loaded |-> FALSE,
                                             load_result |-> load_result(0, <<>>)])]
                   /\ UNCHANGED loadLocals
    /\ UNCHANGED <<store, emptied, queryLocals>>


(***************************************************************************)
(* Mem0Client: each method is one call of the memory service; a failure is *)
(* logged and raised again.                                                *)
(***************************************************************************)
Raised(s, e) == [raised |-> TRUE, store |-> s, error |-> e]

Ack(s, value) == [raised |-> FALSE, store |-> s, value |-> value]

interaction_metadata == [type |-> "customer_interaction"]

\* variant: a failed add is issued again until it is stored
add_customer_interaction_retry(s, cid, interaction, ok) ==
    Ack(memory_add(s, <<interaction>>, cid, interaction_metadata), "added")

add_customer_interaction(s, cid, interaction, ok) ==
    IF ok THEN Ack(memory_add(s, <<interaction>>, cid, interaction_metadata), "added")
    ELSE Raised(s, BackendError)

conversation_metadata(messages, metadata) ==
    [type |-> "conversation", message_count |-> Len(messages) \div 2,
     interaction_type |-> metadata.interaction_type]

add_conversation(s, cid, messages, metadata, ok) ==
    IF ok THEN Ack(memory_add(s, messages, cid, conversation_metadata(messages, metadata)),
                   "added")
    ELSE Raised(s, BackendError)

\* variant: the search is not scoped to the customer's user_id
search_customer_history_unscoped(s, cid, limit, ok) ==
    IF ok THEN {Ack(s, r) :
                  r \in memory_search([s EXCEPT ![cid] = @ \o s["customer_002"]], cid, limit)}
    ELSE {Raised(s, BackendError)}

search_customer_history(s, cid, limit, ok) ==
    IF ok THEN {Ack(s, r) : r \in memory_search(s, cid, limit)}
    ELSE {Raised(s, BackendError)}

get_all_customer_memories(s, cid, ok) ==
    IF ok THEN Ack(s, memory_get_all(s, cid)) ELSE Raised(s, BackendError)

preference_metadata(category) == [type |-> "preference", category |-> category]

client_add_customer_preference(s, cid, preference, category, ok) ==
    IF ok THEN Ack(memory_add(s, <<preference>>, cid, preference_metadata(category)),
                   "added")
    ELSE Raised(s, BackendError)

\* variant: the delete_all is issued for the reserved owner key
delete_customer_memories_other_owner(s, cid, ok) ==
    IF ok THEN Ack(memory_delete_all(s, knowledge_base_user_id), "deleted")
    ELSE Raised(s, BackendError)

\* variant: the delete_all is issued for every owner key
delete_customer_memories_all_owners(s, cid, ok) ==
    IF ok THEN Ack([o \in DOMAIN s |-> <<>>], "deleted") ELSE Raised(s, BackendError)

delete_customer_memories(s, cid, ok) ==
    IF ok THEN Ack(memory_delete_all(s, cid), "deleted") ELSE Raised(s, BackendError)

(***************************************************************************)
(* Mem0Client called directly (as test_mem0_client does): what the caller  *)
(* gets is the value returned or the exception raised.                     *)
(***************************************************************************)
Outcome(r) ==
    IF r.raised THEN [raised |-> TRUE, error |-> r.error]
    ELSE [raised |-> FALSE, value |-> r.value]

\* process p calls adapter method name for customer cid; r is what it does
ClientCall(p, name, fn, cid, data, ok, r) ==
    /\ Begin(p, name)
    /\ store' = r.store
    /\ customer_id' = [customer_id EXCEPT ![p] = cid]
    /\ calls' = [calls EXCEPT ![p] = <<Call(fn, cid, data, ok)>>]
    /\ result' = [result EXCEPT ![p] = Returned(name, Outcome(r))]
    /\ UNCHANGED <<pc, loadLocals, query, save_interaction, context_items, response_text>>

ClientAddCustomerInteraction(p) ==
    \E cid \in CustomerIds, ok \in BOOLEAN :
        /\ ClientCall(p, "client.add_customer_interaction", "add", cid,
                      <<"I'm having trouble with my CloudSync Pro account">>, ok,
                      add_customer_interaction(store, cid,
                          "I'm having trouble with my CloudSync Pro account", ok))
        /\ emptied' = IF ok THEN emptied \ {cid} ELSE emptied

ClientAddConversation(p) ==
    \E cid \in CustomerIds, q \in Queries, ok \in BOOLEAN :
        LET messages == <<"user", q, "assistant", NoContentFallback>>
        IN /\ ClientCall(p, "client.add_conversation", "add", cid, messages, ok,
                         add_conversation(store, cid, messages,
                                          [interaction_type |-> "support_chat"], ok))
           /\ emptied' = IF ok THEN emptied \ {cid} ELSE emptied

ClientAddCustomerPreference(p) ==
    \E cid \in CustomerIds, ok \in BOOLEAN :
        /\ ClientCall(p, "client.add_customer_preference", "add", cid,
                      <<"prefers email">>, ok,
                      client_add_customer_preference(store, cid, "prefers email",
                                                     "general", ok))
        /\ emptied' = IF ok THEN emptied \ {cid} ELSE emptied

ClientSearchCustomerHistory(p) ==
    \E cid \in CustomerIds, ok \in BOOLEAN :
        \E r \in search_customer_history(store, cid, ContextLimit, ok) :
            /\ ClientCall(p, "client.search_customer_history", "search_customer_history",
                          cid, IF r.raised THEN <<>> ELSE r.value, ok, r)
            /\ UNCHANGED emptied

ClientGetAllCustomerMemories(p) ==
    \E cid \in CustomerIds, ok \in BOOLEAN :
        /\ ClientCall(p, "client.get_all_customer_memories", "get_all", cid, NoData, ok,
                      get_all_customer_memories(store, cid, ok))
        /\ UNCHANGED emptied

ClientDeleteCustomerMemories(p) ==
    \E cid \in CustomerIds, ok \in BOOLEAN :
        /\ ClientCall(p, "client.delete_customer_memories", "delete_all", cid,
                      Removed(store, cid, ok), ok,
                      delete_customer_memories(store, cid, ok))
        /\ emptied' = IF ok THEN emptied \cup {cid} ELSE emptied

(***************************************************************************)
(* CustomerSupportAgent: add_customer_preference, get_customer_history,    *)
(* clear_customer_history                                                  *)
(***************************************************************************)
\* {"success": True, "result": ...} or {"success": False, "error": ...}
\* variant: a raised error is answered as a success
wrap_result_swallowed(r) ==
    [success |-> TRUE, result |-> IF r.raised THEN r.error ELSE r.value]

wrap_result(r) ==
    IF r.raised THEN [success |-> FALSE, error |-> r.error]
    ELSE [success |-> TRUE, result |-> r.value]

AddCustomerPreference(p) ==
    /\ Begin(p, "add_customer_preference")
    /\ \E cid \in CustomerIds, ok \in BOOLEAN :
        LET r == client_add_customer_preference(store, cid, "prefers email", "general", ok)
        IN /\ store' = r.store
           /\ emptied' = IF r.raised THEN emptied ELSE emptied \ {cid}
           /\ customer_id' = [customer_id EXCEPT ![p] = cid]
           /\ calls' = [calls EXCEPT ![p] = <<Call("add", cid, <<"prefers email">>, ok)>>]
           /\ result' = [result EXCEPT ![p] =
                           Returned("add_customer_preference", wrap_result(r))]
    /\ UNCHANGED <<pc, loadLocals, query, save_interaction, context_items, response_text>>

\* a failing listing is answered with the empty list
get_customer_history(s, cid, ok) ==
    LET r == get_all_customer_memories(s, cid, ok)
    IN IF r.raised THEN <<>> ELSE r.value

GetCustomerHistory(p) ==
    /\ Begin(p, "get_customer_history")
    /\ \E cid \in CustomerIds, ok \in BOOLEAN :
        /\ customer_id' = [customer_id EXCEPT ![p] = cid]
        /\ calls' = [calls EXCEPT ![p] = <<Call("get_all", cid, NoData, ok)>>]
        /\ result' = [result EXCEPT ![p] =
                        Returned("get_customer_history", get_customer_history(store, cid, ok))]
    /\ UNCHANGED <<store, emptied, pc, loadLocals, query, save_interaction,
                   context_items, response_text>>

ClearCustomerHistory(p) ==
    /\ Begin(p, "clear_customer_history")
    /\ \E cid \in CustomerIds, ok \in BOOLEAN :
        LET r == delete_customer_memories(store, cid, ok)
        IN /\ store' = r.store
           /\ emptied' = IF r.raised THEN emptied ELSE emptied \cup {cid}
           /\ customer_id' = [customer_id EXCEPT ![p] = cid]
           /\ calls' = [calls EXCEPT ![p] = <<Call("delete_all", cid, Removed(store, cid, ok), ok)>>]
           /\ result' = [result EXCEPT ![p] =
                           Returned("clear_customer_history", wrap_result(r))]
    /\ UNCHANGED <<pc, loadLocals, query, save_interaction, context_items, response_text>>


(***************************************************************************)
(* CustomerSupportAgent.handle_customer_query                              *)
(***************************************************************************)
\* a copy of the item with its provenance tag
Tagged(item, source) ==
    [memory |-> item.memory, metadata |-> item.metadata, source |-> source]

TagAll(items, source) == [k \in 1..Len(items) |-> Tagged(items[k], source)]

\* the locals of handle_customer_query before its first step (and, being dead,
\* after its return)
EnterQuery(p) ==
    /\ context_items' = [context_items EXCEPT ![p] = <<>>]
    /\ response_text' = [response_text EXCEPT ![p] = ""]

\* variant: the knowledge base is searched also after a failed history search
after_customer_search_continue(raised, has_loader) ==
    IF has_loader THEN "q_search_kb" ELSE "q_llm"

\* where _get_customer_context goes after the customer-history search
after_customer_search(raised, has_loader) ==
    IF raised THEN "q_llm" ELSE IF has_loader THEN "q_search_kb" ELSE "q_llm"

\* variant: context_used is set whenever the context was looked up
response_data_always_used(resp, cid, q, ctx) ==
    [response |-> resp, customer_id |-> cid, query |-> q,
     context_used |-> Len(ctx) >= 0, context_items_count |-> Len(ctx)]

response_data(resp, cid, q, ctx) ==
    [response |-> resp, customer_id |-> cid, query |-> q,
     context_used |-> Len(ctx) > 0, context_items_count |-> Len(ctx)]

\* variant: the caller is shown the error text as the response
error_response_raw(cid, q, e) ==
    [response |-> e, customer_id |-> cid, query |-> q,
     error |-> e, context_used |-> FALSE, context_items_count |-> 0]

\* variant: the error envelope says that context was used
error_response_context_used(cid, q, e) ==
    [response |-> TechnicalDifficulties, customer_id |-> cid, query |-> q,
     error |-> e, context_used |-> TRUE, context_items_count |-> 0]

error_response(cid, q, e) ==
    [response |-> TechnicalDifficulties, customer_id |-> cid, query |-> q,
     error |-> e, context_used |-> FALSE, context_items_count |-> 0]

CallQuery(p) ==
    /\ Begin(p, "handle_customer_query")
    /\ \E cid \in CustomerIds, q \in Queries, save \in BOOLEAN :
        /\ customer_id' = [customer_id EXCEPT ![p] = cid]
        /\ query' = [query EXCEPT ![p] = q]
        /\ save_interaction' = [save_interaction EXCEPT ![p] = save]
    /\ pc' = [pc EXCEPT ![p] = "q_search_cust"]
    /\ EnterQuery(p)
    /\ result' = [result EXCEPT ![p] = NoResult]
    /\ calls' = [calls EXCEPT ![p] = <<>>]
    /\ UNCHANGED <<store, emptied, loadLocals>>

\* _get_customer_context, first search: the customer's own partition; when
\* it raises the context is empty and the knowledge base is not searched
QuerySearchCustomer(p) ==
    /\ Continue(p, "q_search_cust")
    /\ \E ok \in BOOLEAN :
        \E r \in search_customer_history(store, customer_id[p], ContextLimit, ok) :
            /\ calls' = [calls EXCEPT ![p] =
                           Append(@, Call("search_customer_history", customer_id[p],
                                          IF r.raised THEN <<>> ELSE r.value, ok))]
            /\ context_items' = [context_items EXCEPT ![p] =
                                   IF r.raised THEN <<>>
                                   ELSE TagAll(r.value, "customer_history")]
            /\ pc' = [pc EXCEPT ![p] = after_customer_search(r.raised, knowledge_loader)]
    /\ UNCHANGED <<store, emptied, result, loadLocals, customer_id, query,
                   save_interaction, response_text>>

\* _get_customer_context, second search: the knowledge-base partition
QuerySearchKnowledge(p) ==
    /\ Continue(p, "q_search_kb")
    /\ \E ok \in BOOLEAN :
        \E knowledge_items \in search_knowledge_base(store, ContextLimit, ok) :
            /\ calls' = [calls EXCEPT ![p] =
                           Append(@, Call("search", knowledge_base_user_id,
                                          knowledge_items, ok))]
            /\ context_items' = [context_items EXCEPT ![p] =
                                   @ \o TagAll(knowledge_items, "knowledge_base")]
    /\ pc' = [pc EXCEPT ![p] = "q_llm"]
    /\ UNCHANGED <<store, emptied, result, loadLocals, customer_id, query,
                   save_interaction, response_text>>

(***************************************************************************)
(* CustomerSupportAgent._format_context: the context block, line by line   *)
(***************************************************************************)
NoContextPlaceholder ==
    "No previous interaction history or relevant knowledge base information available."

CustomerHeader == "Previous Customer Interactions:"

KnowledgeHeader == "Relevant Company Knowledge:"

\* one line of the block: a header, the n-th item of a group, a blank line,
\* or the placeholder sentence
Line(kind, n, text) == [kind |-> kind, n |-> n, text |-> text]

HeaderLine(h) == Line("header", 0, <<h>>)

BlankLine == Line("blank", 0, <<>>)

WithSource(items, source) == SelectSeq(items, LAMBDA item : item.source = source)

\* enumerate(items, 1): "{i}. {memory_text}"
Enumerated(items) == [k \in 1..Len(items) |-> Line("item", k, items[k].memory)]

\* variant: both headers are written whenever there is any context
format_context_both_headers(items) ==
    IF items = <<>> THEN <<Line("placeholder", 0, <<NoContextPlaceholder>>)>>
    ELSE <<HeaderLine(CustomerHeader)>>
            \o Enumerated(WithSource(items, "customer_history")) \o <<BlankLine>>
            \o <<HeaderLine(KnowledgeHeader)>>
            \o Enumerated(WithSource(items, "knowledge_base"))

\* variant: the items are enumerated in the order of the list, ungrouped
format_context_in_list_order(items) ==
    IF items = <<>> THEN <<Line("placeholder", 0, <<NoContextPlaceholder>>)>>
    ELSE [k \in 1..Len(items) |-> Line("item", k, items[k].memory)]

format_context(items) ==
    IF items = <<>> THEN <<Line("placeholder", 0, <<NoContextPlaceholder>>)>>
    ELSE LET customer_items == WithSource(items, "customer_history")
             knowledge_items == WithSource(items, "knowledge_base")
         IN (IF customer_items # <<>>
             THEN <<HeaderLine(CustomerHeader)>> \o Enumerated(customer_items)
                      \o <<BlankLine>>
             ELSE <<>>)
            \o
            (IF knowledge_items # <<>>
             THEN <<HeaderLine(KnowledgeHeader)>> \o Enumerated(knowledge_items)
             ELSE <<>>)

\* what the prompt template is filled with (no customer_name is passed)
prompt_input(q, ctx) == [context |-> format_context(ctx), input |-> q]

llm_response_text(content) == IF content # "" THEN content ELSE NoContentFallback

\* variant: a failed completion call is issued again
invoke_next_retry(ok, save) ==
    IF ~ok THEN "q_llm" ELSE IF save THEN "q_save" ELSE "idle"

\* variant: the exchange is saved whatever the completion call did
invoke_next_save_anyway(ok, save) == IF save THEN "q_save" ELSE "idle"

\* where handle_customer_query goes after the completion call: a failure
\* leaves through the except branch, a success saves when asked to
invoke_next(ok, save) ==
    IF ~ok THEN "idle" ELSE IF save THEN "q_save" ELSE "idle"

\* the completion call; a failure ends the query with the error envelope
QueryInvoke(p) ==
    /\ Continue(p, "q_llm")
    /\ \E ok \in BOOLEAN, content \in LlmContents :
        /\ calls' = [calls EXCEPT ![p] =
                       Append(@, Call("invoke", "llm",
                                      prompt_input(query[p], context_items[p]), ok))]
        /\ pc' = [pc EXCEPT ![p] = invoke_next(ok, save_interaction[p])]
        /\ IF invoke_next(ok, save_interaction[p]) = "idle"
           THEN /\ result' = [result EXCEPT ![p] =
                                Returned("handle_customer_query",
                                         IF ok
                                         THEN response_data(llm_response_text(content),
                                                            customer_id[p], query[p],
                                                            context_items[p])
                                         ELSE error_response(customer_id[p], query[p],
                                                             BackendError))]
                /\ EnterQuery(p)
           ELSE /\ response_text' = [response_text EXCEPT ![p] =
                                       IF ok THEN llm_response_text(content) ELSE @]
                /\ UNCHANGED <<result, context_items>>
    /\ UNCHANGED <<store, emptied, loadLocals, customer_id, query, save_interaction>>

\* variant: the agent's response is put before the user's query
conversation_response_first(q, response) == <<"assistant", response, "user", q>>

\* [{"role": "user", "content": query}, {"role": "assistant", "content": response}]
conversation(q, response) == <<"user", q, "assistant", response>>

save_metadata == [interaction_type |-> "support_chat"]

\* variant: the exchange is not handed to the memory service
save_interaction_dropped(s, cid, q, response, ok) == s

\* _save_interaction_to_memory: the outcome of the add is only logged
save_interaction_to_memory(s, cid, q, response, ok) ==
    add_conversation(s, cid, conversation(q, response), save_metadata, ok).store

\* variant: a failed write is reported to the caller
query_result_save_surfaced(resp, cid, q, ctx, saved) ==
    IF saved THEN response_data(resp, cid, q, ctx) ELSE error_response(cid, q, BackendError)

\* what handle_customer_query returns after _save_interaction_to_memory,
\* which returns nothing and raises nothing
query_result_after_save(resp, cid, q, ctx, saved) == response_data(resp, cid, q, ctx)

QuerySave(p) ==
    /\ Continue(p, "q_save")
    /\ \E ok \in BOOLEAN :
        /\ store' = save_interaction_to_memory(store, customer_id[p], query[p],
                                               response_text[p], ok)
        /\ emptied' = IF ok THEN emptied \ {customer_id[p]} ELSE emptied
        /\ calls' = [calls EXCEPT ![p] =
                       Append(@, Call("add", customer_id[p],
                                      conversation(query[p], response_text[p]), ok))]
        /\ result' = [result EXCEPT ![p] =
                        Returned("handle_customer_query",
                                 query_result_after_save(response_text[p], customer_id[p],
                                                         query[p], context_items[p], ok))]
    /\ pc' = [pc EXCEPT ![p] = "idle"]
    /\ EnterQuery(p)
    /\ UNCHANGED <<loadLocals, customer_id, query, save_interaction>>

(***************************************************************************)
(* The process dies inside an operation (between two external calls).      *)
(***************************************************************************)
Crash(p) ==
    /\ pc[p] # "idle"
    /\ pc' = [pc EXCEPT ![p] = "idle"]
    /\ result' = [result EXCEPT ![p] = Returned("crash", [during |-> op[p], at |-> pc[p]])]
    /\ EnterLoad(p)
    /\ EnterQuery(p)
    /\ UNCHANGED <<store, emptied, calls, op, before, budget, knowledge_loader,
                   customer_id, query, save_interaction>>

(***************************************************************************)
(* Specifications.                                                         *)
(***************************************************************************)
\* one copy of every flattened record: what a bootstrap without failures leaves
LoadedPartition ==
    [i \in 1..Len(searchable_items) |->
        MemoryItem(searchable_items[i].content, load_metadata(searchable_items[i]))]

InitWith(stores, ops) ==
    /\ store \in stores
    /\ knowledge_loader \in BOOLEAN
    /\ pc = [p \in Procs |-> "idle"]
    /\ op = [p \in Procs |-> "none"]
    /\ customer_id = [p \in Procs |-> "customer_001"]
    /\ query = [p \in Procs |-> "How much storage do I get?"]
    /\ save_interaction = [p \in Procs |-> TRUE]
    /\ idx = [p \in Procs |-> 1]
    /\ loaded_count = [p \in Procs |-> 0]
    /\ errors = [p \in Procs |-> <<>>]
    /\ context_items = [p \in Procs |-> <<>>]
    /\ response_text = [p \in Procs |-> ""]
    /\ result = [p \in Procs |-> NoResult]
    /\ calls = [p \in Procs |-> <<>>]
    /\ before = [p \in Procs |-> store]
    /\ emptied = {}
    /\ budget = ops

EmptyStore == [o \in Owners |-> <<>>]

\* a fresh memory service
Init == InitWith({EmptyStore}, MaxOps)

\* the agent is constructed after the bootstrap: the knowledge-base partition
\* is loaded, or empty when every add of the bootstrap failed
InitAgent ==
    InitWith({EmptyStore, [EmptyStore EXCEPT ![knowledge_base_user_id] = LoadedPartition]},
             MaxOps)

InitConc == InitWith({EmptyStore}, MaxConcOps)

\* the knowledge loader driven by one thread of control: its operations run
\* one after the other, and the process may die inside one
Next ==
    \E p \in {1} :
        \/ CallLoad(p) \/ LoadStep(p) \/ LoadReturn(p)
        \/ ClearKnowledgeBase(p)
        \/ CallReload(p) \/ ReloadClear(p)
        \/ GetAllKnowledgeBaseItems(p) \/ SearchKnowledgeBase(p)
        \/ CallInitialize(p) \/ InitList(p)
        \/ Crash(p)

Spec == Init /\ [][Next]_vars

\* the support agent driven by one thread of control
NextAgent ==
    \E p \in {1} :
        \/ AddCustomerPreference(p) \/ GetCustomerHistory(p) \/ ClearCustomerHistory(p)
        \/ CallQuery(p) \/ QuerySearchCustomer(p) \/ QuerySearchKnowledge(p)
        \/ QueryInvoke(p) \/ QuerySave(p)
        \/ ClearKnowledgeBase(p) \/ GetAllKnowledgeBaseItems(p)

SpecAgent == InitAgent /\ [][NextAgent]_vars

\* two processes on the same store, bootstrapping and reloading
NextConc ==
    \E p \in Procs :
        \/ CallInitialize(p) \/ InitList(p)
        \/ CallReload(p) \/ ReloadClear(p)
        \/ LoadStep(p) \/ LoadReturn(p)

SpecConc == InitConc /\ [][NextConc]_vars

\* the memory store adapter driven directly by one thread of control
NextClient ==
    \E p \in {1} :
        \/ ClientAddCustomerInteraction(p) \/ ClientAddConversation(p)
        \/ ClientAddCustomerPreference(p) \/ ClientSearchCustomerHistory(p)
        \/ ClientGetAllCustomerMemories(p) \/ ClientDeleteCustomerMemories(p)

SpecClient == InitAgent /\ [][NextClient]_vars

InitPublic ==
    InitWith({EmptyStore, [EmptyStore EXCEPT ![knowledge_base_user_id] = LoadedPartition]},
             MaxPublicOps)

\* every public operation of the knowledge loader and of the support agent,
\* driven by one thread of control
NextPublic ==
    \E p \in {1} :
        \/ CallLoad(p) \/ LoadStep(p) \/ LoadReturn(p)
        \/ ClearKnowledgeBase(p)
        \/ CallReload(p) \/ ReloadClear(p)
        \/ GetAllKnowledgeBaseItems(p) \/ SearchKnowledgeBase(p)
        \/ AddCustomerPreference(p) \/ GetCustomerHistory(p) \/ ClearCustomerHistory(p)
        \/ CallQuery(p) \/ QuerySearchCustomer(p) \/ QuerySearchKnowledge(p)
        \/ QueryInvoke(p) \/ QuerySave(p)

SpecPublic == InitPublic /\ [][NextPublic]_vars

\* a customer partition that holds one item more than a search may return
FullHistory ==
    [k \in 1..(ContextLimit + 1) |->
        MemoryItem(<<"preference", ToString(k)>>, preference_metadata("general"))]

OtherHistory == <<MemoryItem(<<"other customer's note">>, preference_metadata("general"))>>

\* the knowledge-base partition after a load and a second load that got
\* far enough to leave one item more than a search may return
OverLimitPartition == SubSeq(LoadedPartition \o LoadedPartition, 1, ContextLimit + 1)

ContextStores ==
    {[EmptyStore EXCEPT !["customer_001"] = FullHistory,
                        ![knowledge_base_user_id] = OverLimitPartition,
                        ![OtherCustomer] = other] : other \in {<<>>, OtherHistory}}

InitContext == InitWith(ContextStores, MaxQueries)

\* queries on partitions that hold more than the search limit, next to
\* another customer's partition
NextContext ==
    \E p \in {1} :
        \/ CallQuery(p) \/ QuerySearchCustomer(p) \/ QuerySearchKnowledge(p)
        \/ QueryInvoke(p) \/ QuerySave(p)

SpecContext == InitContext /\ [][NextContext]_vars


(***************************************************************************)
(* Vocabulary of the properties.                                           *)
(***************************************************************************)
KnowledgeBase == store[knowledge_base_user_id]

\* how many times record i of the static knowledge base is in partition q
Copies(q, i) ==
    Cardinality({k \in 1..Len(q) : q[k] = LoadedPartition[i]})

NoDuplicates(q) == \A i \in 1..Len(searchable_items) : Copies(q, i) <= 1

\* the add calls the operation of process p has issued so far
AddCalls(p) == SelectSeq(calls[p], LAMBDA c : c.fn = "add")

Oks(q) == Cardinality({k \in 1..Len(q) : q[k].ok})

\* process p has returned from operation name
Finished(p, name) == pc[p] = "idle" /\ result[p].op = name

\* a load result that reports no per-item error
CleanLoad(res) == res.success /\ res.errors = <<>>

C2_BootstrapIdempotent ==
    \A p \in Procs :
        Finished(p, "initialize_knowledge_base") =>
            /\ result[p].ret.loaded => before[p][knowledge_base_user_id] = <<>>
            /\ before[p][knowledge_base_user_id] = LoadedPartition =>
                   KnowledgeBase = LoadedPartition

\* process p runs, or has last run, a reload whose clear step is behind it
ReloadPastClear(p) ==
    /\ op[p] = "reload_knowledge_base"
    /\ Len(calls[p]) >= 1

\* process p died in a reload between the clear phase and the first add
CrashedBetweenPhases(p) ==
    /\ Finished(p, "crash")
    /\ result[p].ret.during = "reload_knowledge_base"
    /\ result[p].ret.at = "load"
    /\ AddCalls(p) = <<>>

\* C3 as stated: a crash between the two phases of a reload leaves the
\* partition empty, and the partition holds no duplicated record during or
\* after a reload (whether or not its clear step succeeded).
C3_ReloadNeverDuplicated ==
    \A p \in Procs :
        /\ CrashedBetweenPhases(p) => KnowledgeBase = <<>>
        /\ ReloadPastClear(p) => NoDuplicates(KnowledgeBase)

\* C3 as amended: a crash between the two phases of a reload leaves the
\* partition empty, and once the clear step of a reload has succeeded the
\* partition holds no duplicated record for the rest of that reload and
\* after it.
C3_ReloadClearedNeverDuplicated ==
    \A p \in Procs :
        /\ CrashedBetweenPhases(p) => KnowledgeBase = <<>>
        /\ (ReloadPastClear(p) /\ calls[p][1].ok) => NoDuplicates(KnowledgeBase)

\* a reload of a partition that held duplicates died between its phases
C3_Witness ==
    \E p \in Procs :
        /\ CrashedBetweenPhases(p)
        /\ ~NoDuplicates(before[p][knowledge_base_user_id])

\* C4: when the delete_all of reload_knowledge_base fails, the reload issues
\* no add and returns the failure result of the clear step.
C4_ReloadStopsOnClearFailure ==
    \A p \in Procs :
        (ReloadPastClear(p) /\ ~calls[p][1].ok) =>
            /\ AddCalls(p) = <<>>
            /\ Finished(p, "reload_knowledge_base")
            /\ result[p].ret = [success |-> FALSE, error |-> BackendError]

\* a reload of a loaded partition whose clear step failed
C4_Witness ==
    \E p \in Procs :
        /\ Finished(p, "reload_knowledge_base")
        /\ ~result[p].ret.success
        /\ before[p][knowledge_base_user_id] # <<>>

\* C6: load_knowledge_base does not deduplicate: a load whose adds all
\* succeed appends one copy of every record to what the partition held, so a
\* second load with no delete_all in between leaves every record twice
\* (twice the number of flattened records).
C6_LoadTwiceDuplicates ==
    \A p \in Procs :
        (Finished(p, "load_knowledge_base") /\ CleanLoad(result[p].ret)) =>
            /\ KnowledgeBase = before[p][knowledge_base_user_id] \o LoadedPartition
            /\ before[p][knowledge_base_user_id] = LoadedPartition =>
                /\ Len(KnowledgeBase) = 2 * Len(searchable_items)
                /\ \A i \in 1..Len(searchable_items) : Copies(KnowledgeBase, i) = 2

\* a second clean load on top of one copy of every record
C6_Witness ==
    \E p \in Procs :
        /\ Finished(p, "load_knowledge_base")
        /\ CleanLoad(result[p].ret)
        /\ before[p][knowledge_base_user_id] = LoadedPartition

\* the operation of process p ran load_knowledge_base to its end
LoadRan(p) ==
    \/ Finished(p, "load_knowledge_base")
    \/ Finished(p, "reload_knowledge_base") /\ result[p].ret.success
    \/ Finished(p, "initialize_knowledge_base") /\ result[p].ret.loaded

LoadResultOf(p) ==
    IF result[p].op = "initialize_knowledge_base"
    THEN result[p].ret.load_result ELSE result[p].ret

\* C7: load_knowledge_base attempts one add for every flattened record, in
\* record order, whether or not earlier adds failed; every failing add gives
\* one entry of errors, and loaded_count counts the adds that succeeded.
C7_BestEffortLoad ==
    \A p \in Procs :
        /\ pc[p] = "load" =>
            /\ Len(AddCalls(p)) = idx[p] - 1
            /\ loaded_count[p] = Oks(AddCalls(p))
            /\ Len(errors[p]) = Len(AddCalls(p)) - Oks(AddCalls(p))
        /\ LoadRan(p) =>
            /\ Len(AddCalls(p)) = Len(searchable_items)
            /\ \A i \in 1..Len(AddCalls(p)) :
                /\ AddCalls(p)[i].data = searchable_items[i].content
                /\ AddCalls(p)[i].user_id = knowledge_base_user_id
            /\ LoadResultOf(p).loaded_count = Oks(AddCalls(p))
            /\ Len(LoadResultOf(p).errors) = Len(AddCalls(p)) - Oks(AddCalls(p))

\* a load whose first add failed and whose last add succeeded
C7_Witness ==
    \E p \in Procs :
        /\ Finished(p, "load_knowledge_base")
        /\ ~AddCalls(p)[1].ok
        /\ AddCalls(p)[Len(searchable_items)].ok
        /\ result[p].ret.loaded_count >= 1
        /\ result[p].ret.errors # <<>>


(***************************************************************************)
(* Two concurrent processes on one store (SpecConc).                       *)
(***************************************************************************)
\* process p has finished a bootstrap that ran the load without a failed add
BootstrapLoaded(p) ==
    /\ Finished(p, "initialize_knowledge_base")
    /\ result[p].ret.loaded
    /\ CleanLoad(result[p].ret.load_result)

\* the run so far consists of one operation of each of the two processes
OnlyTwoOperations == budget = MaxConcOps - 2

\* C5: nothing serialises the check-then-load of bootstrap: when two
\* bootstraps, started on the same empty store, both run the load (each
\* without a failed add), the reserved partition ends with two copies of
\* every record.
C5_ConcurrentBootstrapsDoubleLoad ==
    (OnlyTwoOperations /\ \A p \in Procs : BootstrapLoaded(p)) =>
        /\ Len(KnowledgeBase) = 2 * Len(searchable_items)
        /\ \A i \in 1..Len(searchable_items) : Copies(KnowledgeBase, i) = 2

\* both bootstraps listed the partition successfully, saw no item, and loaded
C5_Witness ==
    /\ OnlyTwoOperations
    /\ \A p \in Procs :
        /\ BootstrapLoaded(p)
        /\ calls[p][1].fn = "get_all"
        /\ calls[p][1].ok
    /\ \A i \in 1..Len(searchable_items) : Copies(KnowledgeBase, i) = 2


(***************************************************************************)
(* Support Agent, one thread of control (SpecAgent).                       *)
(***************************************************************************)
\* the envelope process p got back from handle_customer_query
Envelope(p) == result[p].ret

HasError(p) == "error" \in DOMAIN Envelope(p)

\* the customer's partition was empty when the query of process p began
NoPriorInteractions(p) == before[p][Envelope(p).customer_id] = <<>>

\* number of items the knowledge-base search of the query gave back
KnowledgeReturned(p) ==
    LET found == SelectSeq(calls[p], LAMBDA c : c.fn = "search")
    IN IF found = <<>> THEN 0 ELSE Len(found[1].data)

\* C8 as stated: for a customer with no prior interactions the envelope of
\* the first query has context_used = false and context_items_count = 0.
C8_FirstQueryNoContext ==
    \A p \in Procs :
        (Finished(p, "handle_customer_query") /\ NoPriorInteractions(p)) =>
            /\ ~Envelope(p).context_used
            /\ Envelope(p).context_items_count = 0

\* C8 as amended: for a customer with no prior interactions the context of
\* the first query holds no customer-history item: context_items_count is
\* the number of items the knowledge-base search gave back (none without a
\* knowledge loader) and context_used tells whether that number is
\* positive; an envelope with an error has context_used = false and count 0.
C8_FirstQueryKnowledgeOnly ==
    \A p \in Procs :
        (Finished(p, "handle_customer_query") /\ NoPriorInteractions(p)) =>
            IF HasError(p)
            THEN ~Envelope(p).context_used /\ Envelope(p).context_items_count = 0
            ELSE /\ Envelope(p).context_items_count = KnowledgeReturned(p)
                 /\ Envelope(p).context_used = (KnowledgeReturned(p) > 0)
                 /\ ~knowledge_loader => Envelope(p).context_items_count = 0

\* a first query of a customer whose context held knowledge-base items
C8_Witness ==
    \E p \in Procs :
        /\ Finished(p, "handle_customer_query")
        /\ NoPriorInteractions(p)
        /\ Envelope(p).customer_id # knowledge_base_user_id
        /\ Envelope(p).context_used
        /\ Envelope(p).context_items_count = Len(searchable_items)

\* the memory item that holds the exchange of the query of process p
SavedExchange(p) ==
    LET messages == conversation(Envelope(p).query, Envelope(p).response)
    IN MemoryItem(messages, conversation_metadata(messages, save_metadata))

\* what get_customer_history returns for the customer of process p when it is
\* called next and its listing succeeds
NextHistory(p) == get_customer_history(store, Envelope(p).customer_id, TRUE)

\* the query of process p returned an envelope without error and was asked to
\* save the interaction
SuccessfulSavingQuery(p) ==
    /\ Finished(p, "handle_customer_query")
    /\ ~HasError(p)
    /\ save_interaction[p]

\* C9 as stated: after a query that returned without error with
\* save_interaction = true, the next get_customer_history for that customer
\* returns an item of that exchange.
C9_HistoryHasExchange ==
    \A p \in Procs :
        SuccessfulSavingQuery(p) =>
            \E k \in 1..Len(NextHistory(p)) : NextHistory(p)[k] = SavedExchange(p)

\* C9 as amended: the same, for a query whose memory write succeeded.
C9_HistoryHasSavedExchange ==
    \A p \in Procs :
        (SuccessfulSavingQuery(p) /\ calls[p][Len(calls[p])].ok) =>
            \E k \in 1..Len(NextHistory(p)) : NextHistory(p)[k] = SavedExchange(p)

\* a saved exchange on top of earlier items of the customer
C9_Witness ==
    \E p \in Procs :
        /\ SuccessfulSavingQuery(p)
        /\ calls[p][Len(calls[p])].fn = "add"
        /\ calls[p][Len(calls[p])].ok
        /\ ~NoPriorInteractions(p)
        /\ NextHistory(p)[Len(NextHistory(p))] = SavedExchange(p)

\* C10: a listing of an owner whose last acknowledged write was a delete-all
\* (no add to that owner since) returns the empty sequence:
\* get_customer_history after clear_customer_history, and
\* get_all_knowledge_base_items after clear_knowledge_base.
C10_ListAfterDeleteAllEmpty ==
    \A p \in Procs :
        /\ (Finished(p, "get_customer_history") /\ customer_id[p] \in emptied) =>
               result[p].ret = <<>>
        /\ (Finished(p, "get_all_knowledge_base_items")
            /\ knowledge_base_user_id \in emptied) =>
               result[p].ret = <<>>

\* a listing that succeeded on a customer partition emptied by a delete-all,
\* while the knowledge-base partition still holds items
C10_Witness ==
    \E p \in Procs :
        /\ Finished(p, "get_customer_history")
        /\ customer_id[p] \in emptied
        /\ customer_id[p] # knowledge_base_user_id
        /\ calls[p][1].ok
        /\ result[p].ret = <<>>
        /\ KnowledgeBase # <<>>

\* the calls of kind fn the operation of process p has issued so far
CallsOf(p, fn) == SelectSeq(calls[p], LAMBDA c : c.fn = fn)

Querying(p) == op[p] = "handle_customer_query"

\* the query of process p has issued its completion call
Invoked(p) == Querying(p) /\ CallsOf(p, "invoke") # <<>>

InvokeCall(p) == CallsOf(p, "invoke")[1]

\* the context block the prompt of the query of process p was given
ContextBlock(p) == InvokeCall(p).data.context

\* what the two searches of the query of process p gave back
CustomerFound(p) ==
    LET found == CallsOf(p, "search_customer_history")
    IN IF found = <<>> THEN <<>> ELSE found[1].data

KnowledgeFound(p) ==
    LET found == CallsOf(p, "search")
    IN IF found = <<>> THEN <<>> ELSE found[1].data

HeaderCount(block, h) ==
    Cardinality({k \in 1..Len(block) : block[k] = [kind |-> "header", n |-> 0, text |-> <<h>>]})

\* C11: the context block is determined by the tagged items: the m
\* customer-history items come first under one header, numbered from 1 and
\* followed by a blank line, then the k knowledge-base items under a second
\* header, numbered from 1; a group without items is left out, header
\* included; with no item at all the block is the placeholder sentence.
C11_FormatContext ==
    \A p \in Procs :
        Invoked(p) =>
            LET block == ContextBlock(p)
                m == Len(CustomerFound(p))
                k == Len(KnowledgeFound(p))
                off == IF m > 0 THEN m + 2 ELSE 0
            IN /\ (m = 0 /\ k = 0) =>
                    block = <<[kind |-> "placeholder", n |-> 0,
                               text |-> <<NoContextPlaceholder>>]>>
               /\ (m + k > 0) =>
                    /\ HeaderCount(block, CustomerHeader) = (IF m > 0 THEN 1 ELSE 0)
                    /\ HeaderCount(block, KnowledgeHeader) = (IF k > 0 THEN 1 ELSE 0)
                    /\ Len(block) = off + (IF k > 0 THEN k + 1 ELSE 0)
               /\ (m > 0) =>
                    /\ block[1] = [kind |-> "header", n |-> 0, text |-> <<CustomerHeader>>]
                    /\ \A i \in 1..m :
                         block[1 + i] = [kind |-> "item", n |-> i,
                                         text |-> CustomerFound(p)[i].memory]
                    /\ block[m + 2] = [kind |-> "blank", n |-> 0, text |-> <<>>]
               /\ (k > 0) =>
                    /\ block[off + 1] = [kind |-> "header", n |-> 0,
                                         text |-> <<KnowledgeHeader>>]
                    /\ \A i \in 1..k :
                         block[off + 1 + i] = [kind |-> "item", n |-> i,
                                               text |-> KnowledgeFound(p)[i].memory]

\* two customer-history items and no knowledge-base item: one group header
C11_Witness ==
    \E p \in Procs :
        /\ Invoked(p)
        /\ Len(CustomerFound(p)) = 2
        /\ Len(KnowledgeFound(p)) = 0
        /\ HeaderCount(ContextBlock(p), CustomerHeader) = 1
        /\ HeaderCount(ContextBlock(p), KnowledgeHeader) = 0

\* C12: handle_customer_query calls the completion endpoint exactly once:
\* not before the context is gathered, once by the time it saves or returns,
\* and never a second time, whether or not the call failed.
C12_InvokeExactlyOnce ==
    \A p \in Procs :
        Querying(p) =>
            /\ Len(CallsOf(p, "invoke")) <= 1
            /\ pc[p] \in {"q_search_cust", "q_search_kb", "q_llm"} =>
                   CallsOf(p, "invoke") = <<>>
            /\ (pc[p] = "q_save" \/ Finished(p, "handle_customer_query")) =>
                   Len(CallsOf(p, "invoke")) = 1

\* a query whose only completion call failed has returned
C12_Witness ==
    \E p \in Procs :
        /\ Finished(p, "handle_customer_query")
        /\ Len(CallsOf(p, "invoke")) = 1
        /\ ~InvokeCall(p).ok

\* C13: when the completion call fails, handle_customer_query returns (it
\* does not raise) an envelope with the fixed apology as response text, the
\* error description, and customer_id and query as they were passed in.
C13_CompletionFailureEnvelope ==
    \A p \in Procs :
        (Invoked(p) /\ ~InvokeCall(p).ok) =>
            /\ Finished(p, "handle_customer_query")
            /\ Envelope(p).response = TechnicalDifficulties
            /\ HasError(p)
            /\ Envelope(p).error = BackendError
            /\ Envelope(p).customer_id = customer_id[p]
            /\ Envelope(p).query = query[p]

\* the completion call failed after the searches had found context
C13_Witness ==
    \E p \in Procs :
        /\ Finished(p, "handle_customer_query")
        /\ ~InvokeCall(p).ok
        /\ Len(CustomerFound(p)) > 0
        /\ Envelope(p).response = TechnicalDifficulties

\* C14: the memory write is fire-and-forget: the step that writes the
\* exchange returns the envelope fixed before the write (response text,
\* context_used, context_items_count, no error field), whether the add
\* succeeds or fails, and a failed add does not raise to the caller.
C14_WriteFireAndForget ==
    [][\A p \in Procs :
         (pc[p] = "q_save" /\ pc'[p] # "q_save") =>
            /\ pc'[p] = "idle"
            /\ result'[p] =
                 [op |-> "handle_customer_query",
                  ret |-> [response |-> response_text[p],
                           customer_id |-> customer_id[p],
                           query |-> query[p],
                           context_used |-> Len(context_items[p]) > 0,
                           context_items_count |-> Len(context_items[p])]]]_vars

\* a query with context whose write failed returned a plain envelope
C14_Witness ==
    \E p \in Procs :
        /\ Finished(p, "handle_customer_query")
        /\ CallsOf(p, "add") # <<>>
        /\ ~CallsOf(p, "add")[1].ok
        /\ ~HasError(p)
        /\ Envelope(p).context_used
        /\ store = before[p]

\* process p has returned from a customer-keyed operation that writes
CustomerKeyedWrite(p) ==
    /\ pc[p] = "idle"
    /\ op[p] \in {"handle_customer_query", "add_customer_preference",
                  "clear_customer_history"}

\* C19: no customer-keyed operation of the agent, for any customer id the
\* presentation layer passes in, adds to or deletes the reserved
\* knowledge-base partition.
C19_ReservedPartitionUntouched ==
    \A p \in Procs :
        CustomerKeyedWrite(p) =>
            /\ KnowledgeBase = before[p][knowledge_base_user_id]
            /\ \A k \in 1..Len(calls[p]) :
                 calls[p][k].fn \in {"add", "delete_all"} =>
                     calls[p][k].user_id # knowledge_base_user_id

\* C20: a query asked to save whose completion call succeeded issues
\* exactly one add, to the partition of customer_id, holding the user's
\* query and then the agent's response; the partition grows by that one
\* item when the add succeeds. A query not asked to save issues no add and
\* no delete_all and leaves the store as it found it.
C20_ExactlyOneAdd ==
    \A p \in Procs :
        Finished(p, "handle_customer_query") =>
            LET adds == CallsOf(p, "add")
            IN /\ (save_interaction[p] /\ InvokeCall(p).ok) =>
                    /\ Len(adds) = 1
                    /\ adds[1].user_id = customer_id[p]
                    /\ adds[1].data = <<"user", query[p], "assistant", Envelope(p).response>>
                    /\ adds[1].ok =>
                         /\ Len(store[customer_id[p]]) = Len(before[p][customer_id[p]]) + 1
                         /\ store[customer_id[p]][Len(store[customer_id[p]])].memory
                               = adds[1].data
                         /\ \A o \in Owners \ {customer_id[p]} : store[o] = before[p][o]
               /\ ~save_interaction[p] =>
                    /\ adds = <<>>
                    /\ CallsOf(p, "delete_all") = <<>>
                    /\ store = before[p]

\* the exchange of a query answered with empty content was added to a
\* partition that held items
C20_Witness ==
    \E p \in Procs :
        /\ Finished(p, "handle_customer_query")
        /\ save_interaction[p]
        /\ Len(CallsOf(p, "add")) = 1
        /\ CallsOf(p, "add")[1].ok
        /\ Envelope(p).response = NoContentFallback
        /\ Len(store[customer_id[p]]) >= 2

\* the public operations that answer with a bare list rather than a record
ListReturning ==
    {"search_knowledge_base", "get_all_knowledge_base_items", "get_customer_history"}

\* some external call of the operation of process p failed
SomeCallFailed(p) == \E k \in 1..Len(calls[p]) : ~calls[p][k].ok

\* the result of process p is the record {success: false, error}
FailureResult(p) ==
    /\ result[p].op \notin ListReturning
    /\ result[p].ret = [success |-> FALSE, error |-> BackendError]

\* process p has returned from one of the three wrappers, whose call failed
WrapperFailed(p) ==
    /\ pc[p] = "idle"
    /\ result[p].op \in {"add_customer_preference", "get_customer_history",
                         "clear_customer_history"}
    /\ SomeCallFailed(p)

\* C15 as stated: add_customer_preference, get_customer_history and
\* clear_customer_history each answer a failed adapter call with
\* {success: false, error}.
C15_WrappersReturnFailure ==
    \A p \in Procs : WrapperFailed(p) => FailureResult(p)

\* C15 as amended: each of the three issues one adapter call, for the
\* customer it was given, and none lets the error through:
\* add_customer_preference and clear_customer_history answer a failed call
\* with {success: false, error} and a successful one with success = true;
\* get_customer_history answers a failed call with the empty list and a
\* successful one with the customer's partition.
C15_WrappersCatchErrors ==
    \A p \in Procs :
        /\ Finished(p, "add_customer_preference") =>
            /\ Len(calls[p]) = 1 /\ calls[p][1].fn = "add"
            /\ calls[p][1].user_id = customer_id[p]
            /\ IF calls[p][1].ok THEN result[p].ret.success ELSE FailureResult(p)
        /\ Finished(p, "clear_customer_history") =>
            /\ Len(calls[p]) = 1 /\ calls[p][1].fn = "delete_all"
            /\ calls[p][1].user_id = customer_id[p]
            /\ IF calls[p][1].ok THEN result[p].ret.success ELSE FailureResult(p)
        /\ Finished(p, "get_customer_history") =>
            /\ Len(calls[p]) = 1 /\ calls[p][1].fn = "get_all"
            /\ calls[p][1].user_id = customer_id[p]
            /\ result[p].ret = IF calls[p][1].ok THEN store[customer_id[p]] ELSE <<>>

\* a failed listing of a customer with items was answered with the empty
\* list
C15_Witness ==
    \E p \in Procs :
        /\ Finished(p, "get_customer_history")
        /\ ~calls[p][1].ok
        /\ customer_id[p] # knowledge_base_user_id
        /\ store[customer_id[p]] # <<>>
        /\ result[p].ret = <<>>

(***************************************************************************)
(* Every public operation of loader and agent (SpecPublic).                *)
(***************************************************************************)
\* process p has returned from a public operation
ReturnedFromPublic(p) == pc[p] = "idle" /\ result[p].op # "none"

\* the result of process p carries a success flag
HasSuccessFlag(p) ==
    /\ result[p].op \notin ListReturning
    /\ "success" \in DOMAIN result[p].ret

FailedCalls(p) == Cardinality({k \in 1..Len(calls[p]) : ~calls[p][k].ok})

\* C16 as stated: every public operation of the knowledge loader and of the
\* support agent returns a structured result carrying a success flag.
C16_StructuredResults ==
    \A p \in Procs : ReturnedFromPublic(p) => HasSuccessFlag(p)

\* C16 as amended: every public operation returns whatever external call
\* failed. clear, reload (clear step failed), add_customer_preference and
\* clear_customer_history answer {success: false, error}; load (and a reload
\* past its clear step) answers success = true with one errors entry per
\* failed add; search, get-all and get_customer_history answer the empty
\* list; handle_customer_query answers an envelope without success flag,
\* with an error field exactly when the completion call failed.
C16_FailuresCaught ==
    \A p \in Procs :
        ReturnedFromPublic(p) =>
            /\ result[p].op = op[p]
            /\ op[p] \in {"clear_knowledge_base", "add_customer_preference",
                          "clear_customer_history"} =>
                   IF SomeCallFailed(p) THEN FailureResult(p) ELSE result[p].ret.success
            /\ op[p] = "reload_knowledge_base" /\ ~calls[p][1].ok => FailureResult(p)
            /\ (op[p] = "load_knowledge_base"
                \/ (op[p] = "reload_knowledge_base" /\ calls[p][1].ok)) =>
                   /\ result[p].ret.success
                   /\ Len(result[p].ret.errors) = FailedCalls(p)
            /\ (op[p] \in ListReturning /\ SomeCallFailed(p)) => result[p].ret = <<>>
            /\ op[p] = "handle_customer_query" =>
                   /\ "success" \notin DOMAIN result[p].ret
                   /\ HasError(p) = ~InvokeCall(p).ok
                   /\ HasError(p) => Envelope(p).error = BackendError

\* a clear whose delete_all failed on a loaded partition
C16_Witness ==
    \E p \in Procs :
        /\ Finished(p, "clear_knowledge_base")
        /\ SomeCallFailed(p)
        /\ FailureResult(p)
        /\ KnowledgeBase = LoadedPartition

(***************************************************************************)
(* Memory store adapter called directly (SpecClient).                      *)
(***************************************************************************)
ClientOps ==
    {"client.add_customer_interaction", "client.add_conversation",
     "client.add_customer_preference", "client.search_customer_history",
     "client.get_all_customer_memories", "client.delete_customer_memories"}

\* C17: every adapter operation issues exactly one backend call; when that
\* call fails the caller gets the error raised (nothing is stored or
\* deleted by a second attempt), and when it succeeds the caller gets its
\* value.
C17_OneCallNoRetry ==
    \A p \in Procs :
        (pc[p] = "idle" /\ result[p].op \in ClientOps) =>
            /\ Len(calls[p]) = 1
            /\ calls[p][1].user_id = customer_id[p]
            /\ result[p].ret.raised = ~calls[p][1].ok
            /\ ~calls[p][1].ok =>
                   /\ result[p].ret.error = BackendError
                   /\ store = before[p]

\* a failed add_customer_interaction on a partition that holds items
C17_Witness ==
    \E p \in Procs :
        /\ Finished(p, "client.add_customer_interaction")
        /\ result[p].ret.raised
        /\ customer_id[p] # knowledge_base_user_id
        /\ store[customer_id[p]] # <<>>
        /\ store = before[p]

FnOrder(fn) ==
    CASE fn = "search_customer_history" -> 1
      [] fn = "search" -> 2
      [] fn = "invoke" -> 3
      [] fn = "add" -> 4
      [] OTHER -> 0

\* C23: the external calls of one query happen in a fixed order, each at
\* most once: history search, knowledge search, completion call, memory
\* write. The write is issued only after the completion call has succeeded,
\* and a query whose completion call failed adds nothing to the store.
C23_WriteAfterCompletion ==
    \A p \in Procs :
        Querying(p) =>
            /\ \A k \in 1..Len(calls[p]) : FnOrder(calls[p][k].fn) > 0
            /\ \A i, j \in 1..Len(calls[p]) :
                 i < j => FnOrder(calls[p][i].fn) < FnOrder(calls[p][j].fn)
            /\ calls[p] # <<>> => calls[p][1].fn = "search_customer_history"
            /\ CallsOf(p, "add") # <<>> => (Invoked(p) /\ InvokeCall(p).ok)
            /\ (Invoked(p) /\ ~InvokeCall(p).ok) =>
                 /\ CallsOf(p, "add") = <<>>
                 /\ store = before[p]

\* a query asked to save, with both searches made, whose completion call
\* failed
C23_Witness ==
    \E p \in Procs :
        /\ Finished(p, "handle_customer_query")
        /\ save_interaction[p]
        /\ CallsOf(p, "search") # <<>>
        /\ ~InvokeCall(p).ok
        /\ CallsOf(p, "add") = <<>>
        /\ store = before[p]

\* C25: in every envelope context_used tells whether context_items_count is
\* positive; an envelope without error counts the items the searches gave
\* back, and an envelope with an error has context_used = false and count 0
\* whatever the searches gave back.
C25_ContextUsedIffCount ==
    \A p \in Procs :
        Finished(p, "handle_customer_query") =>
            /\ Envelope(p).context_used = (Envelope(p).context_items_count > 0)
            /\ HasError(p) =>
                 /\ ~Envelope(p).context_used
                 /\ Envelope(p).context_items_count = 0
            /\ ~HasError(p) =>
                 Envelope(p).context_items_count
                    = Len(CustomerFound(p)) + Len(KnowledgeFound(p))

\* an error envelope of a query whose two searches had both found items
C25_Witness ==
    \E p \in Procs :
        /\ Finished(p, "handle_customer_query")
        /\ HasError(p)
        /\ CustomerFound(p) # <<>>
        /\ KnowledgeFound(p) # <<>>
        /\ ~Envelope(p).context_used

\* the customer-history search of the query of process p failed
CustomerSearchFailed(p) ==
    /\ Querying(p)
    /\ CallsOf(p, "search_customer_history") # <<>>
    /\ ~CallsOf(p, "search_customer_history")[1].ok

\* C26: when the customer-history search of a query fails, the context is
\* empty: the knowledge base is not searched, the prompt gets the
\* placeholder, the completion call is made all the same, and the envelope
\* has context_used = false and count 0, with no error field when the
\* completion call succeeded.
C26_FailedHistorySearchEmptiesContext ==
    \A p \in Procs :
        CustomerSearchFailed(p) =>
            /\ CallsOf(p, "search") = <<>>
            /\ pc[p] # "q_search_kb"
            /\ context_items[p] = <<>>
            /\ Invoked(p) =>
                 ContextBlock(p) = <<[kind |-> "placeholder", n |-> 0,
                                      text |-> <<NoContextPlaceholder>>]>>
            /\ Finished(p, "handle_customer_query") =>
                 /\ Invoked(p)
                 /\ ~Envelope(p).context_used
                 /\ Envelope(p).context_items_count = 0
                 /\ InvokeCall(p).ok => ~HasError(p)

\* the history search failed for a customer with items, with a loader and a
\* loaded knowledge base, and the query was answered
C26_Witness ==
    \E p \in Procs :
        /\ Finished(p, "handle_customer_query")
        /\ CustomerSearchFailed(p)
        /\ knowledge_loader
        /\ before[p][customer_id[p]] # <<>>
        /\ KnowledgeBase = LoadedPartition
        /\ ~HasError(p)

(***************************************************************************)
(* Knowledge Loader, one thread of control (Spec), continued.              *)
(***************************************************************************)
\* C24: whenever load_knowledge_base gets through the record list, its
\* result has success = true and loaded_count + len(errors) = total_items
\* (the number of flattened records), also when some or all adds failed;
\* inside the loop the two counters add up to the records gone through.
C24_LoadCountsAddUp ==
    \A p \in Procs :
        /\ pc[p] = "load" => loaded_count[p] + Len(errors[p]) = idx[p] - 1
        /\ LoadRan(p) =>
            /\ LoadResultOf(p).success
            /\ LoadResultOf(p).total_items = Len(searchable_items)
            /\ LoadResultOf(p).loaded_count + Len(LoadResultOf(p).errors)
                  = LoadResultOf(p).total_items

\* a load every add of which failed reports success with loaded_count 0
C24_Witness ==
    \E p \in Procs :
        /\ Finished(p, "load_knowledge_base")
        /\ result[p].ret.success
        /\ result[p].ret.loaded_count = 0
        /\ Len(result[p].ret.errors) = Len(searchable_items)
        /\ store = before[p]

\* the listing of the bootstrap of process p failed
BootstrapListingFailed(p) ==
    /\ op[p] = "initialize_knowledge_base"
    /\ calls[p] # <<>>
    /\ ~calls[p][1].ok

\* C28: a failed listing of the reserved partition is answered with the
\* empty list, and bootstrap takes it for an empty partition: it runs
\* load_knowledge_base, one add per record, whatever the partition holds.
C28_FailedListingLoads ==
    \A p \in Procs :
        /\ (Finished(p, "get_all_knowledge_base_items") /\ ~calls[p][1].ok) =>
               result[p].ret = <<>>
        /\ BootstrapListingFailed(p) =>
            /\ pc[p] = "idle" => result[p].op \in {"initialize_knowledge_base", "crash"}
            /\ Finished(p, "initialize_knowledge_base") =>
                /\ result[p].ret.loaded
                /\ Len(AddCalls(p)) = Len(searchable_items)
                /\ CleanLoad(result[p].ret.load_result) =>
                       KnowledgeBase = before[p][knowledge_base_user_id] \o LoadedPartition

\* a bootstrap whose listing failed loaded on top of a loaded partition
C28_Witness ==
    \E p \in Procs :
        /\ Finished(p, "initialize_knowledge_base")
        /\ BootstrapListingFailed(p)
        /\ before[p][knowledge_base_user_id] = LoadedPartition
        /\ result[p].ret.loaded
        /\ \A i \in 1..Len(searchable_items) : Copies(KnowledgeBase, i) = 2

\* partition q holds at least one item but fewer than there are records
PartialPartition(q) == Len(q) >= 1 /\ Len(q) < Len(searchable_items)

\* C29: a bootstrap that starts on a partition holding at least one item
\* but fewer than the number of flattened records issues no add and leaves
\* the partition as it found it.
C29_BootstrapNeverRepairs ==
    \A p \in Procs :
        (op[p] = "initialize_knowledge_base"
         /\ PartialPartition(before[p][knowledge_base_user_id])) =>
            /\ AddCalls(p) = <<>>
            /\ KnowledgeBase = before[p][knowledge_base_user_id]

(***************************************************************************)
(* Two concurrent processes on one store (SpecConc), continued.            *)
(***************************************************************************)
\* process p has finished a reload whose clear step and adds all succeeded
ReloadLoaded(p) ==
    /\ Finished(p, "reload_knowledge_base")
    /\ CleanLoad(result[p].ret)

\* the clear step of the reload of process p ran before the load of the
\* other reload had added its last record: it removed less than a full load
ClearedBeforeLoadFinished(p) == Len(calls[p][1].data) < Len(searchable_items)

\* C30: nothing isolates a reload from a concurrent one: when two reloads,
\* started on the empty store, both run their clear step before either load
\* has added its last record and all their adds succeed, the reserved
\* partition ends with more items than there are records, some record more
\* than once, and both reloads report success with loaded_count =
\* total_items.
C30_OverlappingReloadsDuplicate ==
    (OnlyTwoOperations
     /\ \A p \in Procs : ReloadLoaded(p) /\ ClearedBeforeLoadFinished(p)) =>
        /\ Len(KnowledgeBase) > Len(searchable_items)
        /\ \E i \in 1..Len(searchable_items) : Copies(KnowledgeBase, i) >= 2
        /\ \A p \in Procs :
             /\ result[p].ret.success
             /\ result[p].ret.loaded_count = Len(searchable_items)
             /\ result[p].ret.loaded_count = result[p].ret.total_items

\* both clear steps ran before the first add: every record is there twice
C30_Witness ==
    /\ OnlyTwoOperations
    /\ \A p \in Procs :
        /\ ReloadLoaded(p)
        /\ calls[p][1].ok
        /\ calls[p][1].data = <<>>
    /\ \A i \in 1..Len(searchable_items) : Copies(KnowledgeBase, i) = 2

(***************************************************************************)
(* Queries on partitions larger than the search limit (SpecContext).       *)
(***************************************************************************)
\* the context list had the two searches been issued together and their
\* results appended as they arrived
ArrivalContext(customer_first, customer_ok, customer_items, knowledge_items) ==
    IF ~customer_ok THEN <<>>
    ELSE IF customer_first
    THEN [k \in 1..Len(customer_items) |->
             [memory |-> customer_items[k].memory, metadata |-> customer_items[k].metadata,
              source |-> "customer_history"]]
         \o [k \in 1..Len(knowledge_items) |->
             [memory |-> knowledge_items[k].memory, metadata |-> knowledge_items[k].metadata,
              source |-> "knowledge_base"]]
    ELSE [k \in 1..Len(knowledge_items) |->
             [memory |-> knowledge_items[k].memory, metadata |-> knowledge_items[k].metadata,
              source |-> "knowledge_base"]]
         \o [k \in 1..Len(customer_items) |->
             [memory |-> customer_items[k].memory, metadata |-> customer_items[k].metadata,
              source |-> "customer_history"]]

CustomerSearchOk(p) == CallsOf(p, "search_customer_history")[1].ok

\* what the knowledge-base search of the query of process p gave back, or,
\* where the query did not get to it, everything it could have given back
KnowledgeOutcomes(p) ==
    IF CallsOf(p, "search") # <<>> THEN {KnowledgeFound(p)}
    ELSE IF knowledge_loader
    THEN search_knowledge_base(before[p], ContextLimit, TRUE)
         \cup search_knowledge_base(before[p], ContextLimit, FALSE)
    ELSE {<<>>}

\* C21: issuing the two context searches together instead of one after the
\* other changes nothing the caller sees: for every outcome of the two
\* searches, whichever arrives first, the context block is the one the
\* prompt was given and the envelope is the one returned.
C21_SearchOrderIrrelevant ==
    \A p \in Procs :
        Invoked(p) =>
            \A customer_first \in BOOLEAN :
                \A knowledge_items \in KnowledgeOutcomes(p) :
                    LET ctx == ArrivalContext(customer_first, CustomerSearchOk(p),
                                              CustomerFound(p), knowledge_items)
                    IN /\ format_context(ctx) = ContextBlock(p)
                       /\ (Finished(p, "handle_customer_query") /\ ~HasError(p)) =>
                            /\ Envelope(p).context_items_count = Len(ctx)
                            /\ Envelope(p).context_used = (Len(ctx) > 0)

\* a query answered with context of both kinds, the two of different items
C21_Witness ==
    \E p \in Procs :
        /\ Finished(p, "handle_customer_query")
        /\ ~HasError(p)
        /\ Len(CustomerFound(p)) >= 2
        /\ Len(KnowledgeFound(p)) >= 2
        /\ customer_id[p] # knowledge_base_user_id

Items(q) == {q[k] : k \in 1..Len(q)}

\* the store as it was when the query of process p began, with other put
\* in place of what is stored under the other customer's id
WithOther(p, other) == [before[p] EXCEPT ![OtherCustomer] = other]

\* C27: the context of a customer's query holds only items stored under the
\* customer's own id and items of the reserved partition; what the two
\* searches can give back when the query sets out, and so the context block
\* and the envelope, is the same whatever is stored under another
\* customer's id, and the query leaves that other partition as it was.
C27_OwnerIsolation ==
    \A p \in Procs :
        Querying(p) =>
            /\ Items(CustomerFound(p)) \subseteq Items(before[p][customer_id[p]])
            /\ Items(KnowledgeFound(p)) \subseteq Items(before[p][knowledge_base_user_id])
            /\ \A k \in 1..Len(context_items[p]) :
                 context_items[p][k].memory
                    \in {m.memory : m \in Items(before[p][customer_id[p]])
                                        \cup Items(before[p][knowledge_base_user_id])}
            /\ pc[p] = "q_search_cust" =>
               \A other \in {<<>>, OtherHistory} : \A ok \in BOOLEAN :
                 /\ {r.raised : r \in search_customer_history(WithOther(p, other),
                                          customer_id[p], ContextLimit, ok)} = {~ok}
                 /\ ok => {r.value : r \in search_customer_history(WithOther(p, other),
                                              customer_id[p], ContextLimit, ok)}
                          = {r.value : r \in search_customer_history(before[p],
                                              customer_id[p], ContextLimit, ok)}
                 /\ search_knowledge_base(WithOther(p, other), ContextLimit, ok)
                      = search_knowledge_base(before[p], ContextLimit, ok)
            /\ store[OtherCustomer] = before[p][OtherCustomer]

\* a query with context of both kinds answered while another customer's
\* partition holds an item
C27_Witness ==
    \E p \in Procs :
        /\ Finished(p, "handle_customer_query")
        /\ customer_id[p] # knowledge_base_user_id
        /\ store[OtherCustomer] # <<>>
        /\ CustomerFound(p) # <<>>
        /\ KnowledgeFound(p) # <<>>
        /\ CallsOf(p, "add") # <<>>

====
